---- MODULE Spec2Model ----
(***************************************************************************)
(* Model of the feedback classifier (src/ai/analyzer.ts: analyzeFeedback,  *)
(* normalizeSentiment, fallbackAnalysis, batchAnalyzeFeedback) and of the  *)
(* handlers that write its results to table feedback (src/index.ts:        *)
(* analyzeEndpoint, analyzeAllFeedback).                                   *)
(*                                                                         *)
(* Spec            one invocation of analyzeFeedback or of                 *)
(*                 batchAnalyzeFeedback                                    *)
(* SpecFallback    fallbackAnalysis applied to a text                      *)
(* SpecInterleaved two invocations of batchAnalyzeFeedback, interleaved    *)
(* SpecRequests    two requests served at the same time over the table     *)
(*                                                                         *)
(* Strings are sequences of one-character strings.  Numbers are fixed      *)
(* point integers counted in hundredths (0.7 is 70, 5 is 500) except       *)
(* where an integer is stated (urgency, counts, indexes).                  *)
(***************************************************************************)
EXTENDS Integers, Sequences, FiniteSets, TLC

VARIABLES entry, feedbackList, onProgress, content, pc, i, analysis, results,
          outcomes, console, trace, counts, invocations, store, requests

vars == <<entry, feedbackList, onProgress, content, pc, i, analysis, results,
          outcomes, console, trace, counts, invocations, store, requests>>

\* the variables of one invocation of the analyzer on its own
alone == <<entry, feedbackList, onProgress, content, pc, i, analysis, results,
           outcomes, trace>>

\* the variables the actions of one invocation of the analyzer leave alone
outside == <<counts, invocations, store, requests>>

(***************************************************************************)
(* Bounds of the model.                                                    *)
(***************************************************************************)
\* longest list handed to batchAnalyzeFeedback
MaxItems == 2

\* most fragments in a text handed to fallbackAnalysis directly
MaxFragments == 3

\* rows of table feedback
MaxRows == 3

\* the LIMIT of the query of analyzeAllFeedback (50), scaled to MaxRows
SelectLimit == 2

(***************************************************************************)
(* Strings.                                                                *)
(***************************************************************************)
NL == "\n"

\* the backquote character (a TLA+ string cannot hold one)
BackTick == "backquote"

UpperCase == <<"A","B","C","D","E","F","G","H","I","J","K","L","M","N","O","P","Q","R","S","T","U","V","W","X","Y","Z">>

LowerCase == <<"a","b","c","d","e","f","g","h","i","j","k","l","m","n","o","p","q","r","s","t","u","v","w","x","y","z">>

Digits == <<"0","1","2","3","4","5","6","7","8","9">>

WhiteSpace == {" ", NL}

\* the lower-case letter of each upper-case letter
LowerOf == [c \in {UpperCase[k] : k \in 1..Len(UpperCase)} |->
              LowerCase[CHOOSE k \in 1..Len(UpperCase) : UpperCase[k] = c]]

\* String.prototype.toLowerCase, one character
LowerChar(c) == IF c \in DOMAIN LowerOf THEN LowerOf[c] ELSE c

\* String.prototype.toLowerCase
toLowerCase(s) == [k \in 1..Len(s) |-> LowerChar(s[k])]

\* s has sub at (0-based) offset k
MatchesAt(s, sub, k) ==
    /\ k + Len(sub) <= Len(s)
    /\ \A j \in 1..Len(sub) : s[k + j] = sub[j]

\* String.prototype.includes
includes(s, sub) == \E k \in 0..(Len(s) - Len(sub)) : MatchesAt(s, sub, k)

RECURSIVE DropLeadingSpace(_)
DropLeadingSpace(s) ==
    IF s # <<>> /\ Head(s) \in WhiteSpace THEN DropLeadingSpace(Tail(s)) ELSE s

RECURSIVE DropTrailingSpace(_)
DropTrailingSpace(s) ==
    IF s # <<>> /\ s[Len(s)] \in WhiteSpace
    THEN DropTrailingSpace(SubSeq(s, 1, Len(s) - 1))
    ELSE s

\* String.prototype.trim
trim(s) == DropTrailingSpace(DropLeadingSpace(s))

\* s.replace(/<pat>\n?/g, ''): every occurrence of pat, with the newline
\* that may follow it, is removed, scanning left to right
RECURSIVE RemoveAll(_, _)
RemoveAll(s, pat) ==
    IF s = <<>> THEN <<>>
    ELSE IF MatchesAt(s, pat, 0)
         THEN LET rest == SubSeq(s, Len(pat) + 1, Len(s))
              IN  IF rest # <<>> /\ Head(rest) = NL
                  THEN RemoveAll(Tail(rest), pat)
                  ELSE RemoveAll(rest, pat)
         ELSE <<Head(s)>> \o RemoveAll(Tail(s), pat)

(***************************************************************************)
(* Values read from the parsed model response (JSON values, and undefined  *)
(* for a key the object does not have).  n is the number in hundredths,    *)
(* s the string.                                                           *)
(***************************************************************************)
Undefined == [t |-> "undefined", n |-> 0, s |-> <<>>]

Null == [t |-> "null", n |-> 0, s |-> <<>>]

True == [t |-> "boolean", n |-> 1, s |-> <<>>]

Obj == [t |-> "object", n |-> 0, s |-> <<>>]

Num(n) == [t |-> "number", n |-> n, s |-> <<>>]

Str(s) == [t |-> "string", n |-> 0, s |-> s]

NaN == [nan |-> TRUE, v |-> 0]

Number(v) == [nan |-> FALSE, v |-> v]

Abs(n) == IF n < 0 THEN -n ELSE n

RECURSIVE NatToString(_)
NatToString(n) ==
    IF n < 10 THEN <<Digits[n + 1]>>
    ELSE NatToString(n \div 10) \o <<Digits[(n % 10) + 1]>>

\* Number::toString of a number given in hundredths
NumberToString(n) ==
    LET a == Abs(n)
        f == a % 100
    IN  (IF n < 0 THEN <<"-">> ELSE <<>>)
        \o NatToString(a \div 100)
        \o (IF f = 0 THEN <<>>
            ELSE IF f % 10 = 0 THEN <<".", Digits[(f \div 10) + 1]>>
            ELSE <<".", Digits[(f \div 10) + 1], Digits[(f % 10) + 1]>>)

\* ToString(x), the conversion parseInt and parseFloat apply to their argument
JsToString(x) ==
    CASE x.t = "string" -> x.s
      [] x.t = "number" -> NumberToString(x.n)
      [] x.t = "undefined" -> <<"u","n","d","e","f","i","n","e","d">>
      [] x.t = "null" -> <<"n","u","l","l">>
      [] x.t = "boolean" -> <<"t","r","u","e">>
      [] OTHER -> <<"[","o","b","j","e","c","t"," ","O","b","j","e","c","t","]">>

IsDigit(c) == \E k \in 1..Len(Digits) : Digits[k] = c

DigitVal(c) == (CHOOSE k \in 1..Len(Digits) : Digits[k] = c) - 1

\* the longest prefix of s made of digits
RECURSIVE DigitPrefix(_)
DigitPrefix(s) ==
    IF s # <<>> /\ IsDigit(Head(s)) THEN <<Head(s)>> \o DigitPrefix(Tail(s)) ELSE <<>>

RECURSIVE DigitsValue(_)
DigitsValue(d) ==
    IF d = <<>> THEN 0 ELSE DigitsValue(SubSeq(d, 1, Len(d) - 1)) * 10 + DigitVal(d[Len(d)])

HasSign(s) == s # <<>> /\ Head(s) \in {"-", "+"}

\* parseInt(x) with no radix, on decimal text: leading white space, a sign,
\* then the longest run of digits; NaN when there is no digit
parseInt(x) ==
    LET s == DropLeadingSpace(JsToString(x))
        body == IF HasSign(s) THEN Tail(s) ELSE s
        d == DigitPrefix(body)
        sign == IF s # <<>> /\ Head(s) = "-" THEN -1 ELSE 1
    IN  IF d = <<>> THEN NaN ELSE Number(sign * DigitsValue(d))

\* parseFloat(x) on decimal text without exponent: leading white space, a
\* sign, digits, a point and digits; NaN when there is no digit.  The value
\* is in hundredths (digits past the second decimal are dropped).
parseFloat(x) ==
    LET s == DropLeadingSpace(JsToString(x))
        body == IF HasSign(s) THEN Tail(s) ELSE s
        ip == DigitPrefix(body)
        rest == SubSeq(body, Len(ip) + 1, Len(body))
        fp == IF rest # <<>> /\ Head(rest) = "." THEN DigitPrefix(Tail(rest)) ELSE <<>>
        f2 == SubSeq(fp \o <<"0", "0">>, 1, 2)
        sign == IF s # <<>> /\ Head(s) = "-" THEN -1 ELSE 1
    IN  IF ip = <<>> /\ fp = <<>> THEN NaN
        ELSE Number(sign * (DigitsValue(ip) * 100 + DigitsValue(f2)))

\* a || b on numbers: b when a is NaN or 0
OrElse(a, b) == IF a.nan \/ a.v = 0 THEN b ELSE a.v

Min(a, b) == IF a < b THEN a ELSE b

Max(a, b) == IF a > b THEN a ELSE b

(***************************************************************************)
(* Thrown values and the completion of a call that may throw.              *)
(***************************************************************************)
\* an Error object with a message
ErrorObject(name) == [t |-> "object", message |-> name]

\* a thrown value that is no object: a string, null or undefined
Primitive(t) == [t |-> t, message |-> "undefined"]

NoError == Primitive("none")

\* reading a property of null or undefined throws a TypeError
IsNullish(e) == e.t \in {"null", "undefined"}

Return(v) == [threw |-> FALSE, error |-> NoError, value |-> v]

Throw(e, none) == [threw |-> TRUE, error |-> e, value |-> none]

(***************************************************************************)
(* AnalysisResult and the object JSON.parse yields.                        *)
(***************************************************************************)
Sentiments == {"positive", "negative", "neutral"}

AnalysisResult(sentiment, urgency, confidence, reasoning) ==
    [sentiment |-> sentiment, urgency |-> urgency,
     confidence |-> confidence, reasoning |-> reasoning]

\* no result (a variable that holds no AnalysisResult yet)
NoResult == AnalysisResult("none", 0, 0, Undefined)

\* the object {} : every key is missing
EmptyObject ==
    [sentiment |-> Undefined, urgency |-> Undefined,
     confidence |-> Undefined, reasoning |-> Undefined]

\* the text of the members of a JSON object ("sentiment": ..., "urgency": ...),
\* one element of a response text; the object it denotes travels with the text
Members == "<members>"

FallbackMarker == <<"F","a","l","l","b","a","c","k"," ","r","u","l","e","-","b","a","s","e","d"," ","a","n","a","l","y","s","i","s">>

(***************************************************************************)
(* normalizeSentiment                                                      *)
(***************************************************************************)
normalizeSentimentFirstWins(sentiment) ==
    IF sentiment.t # "string"
    THEN Throw(ErrorObject("TypeError: sentiment.toLowerCase is not a function"), "none")
    ELSE LET s == toLowerCase(sentiment.s)
         IN  IF includes(s, <<"n","e","g","a","t","i","v","e">>) THEN Return("negative")
             ELSE IF includes(s, <<"p","o","s","i","t","i","v","e">>) THEN Return("positive")
             ELSE Return("neutral")

normalizeSentiment(sentiment) ==
    IF sentiment.t # "string"
    THEN Throw(ErrorObject("TypeError: sentiment.toLowerCase is not a function"), "none")
    ELSE LET s == toLowerCase(sentiment.s)
         IN  IF includes(s, <<"p","o","s","i","t","i","v","e">>) THEN Return("positive")
             ELSE IF includes(s, <<"n","e","g","a","t","i","v","e">>) THEN Return("negative")
             ELSE Return("neutral")

(***************************************************************************)
(* fallbackAnalysis                                                        *)
(***************************************************************************)
positiveWords ==
    << <<"g","r","e","a","t">>, <<"l","o","v","e">>, <<"e","x","c","e","l","l","e","n","t">>, <<"a","m","a","z","i","n","g">>, <<"w","o","n","d","e","r","f","u","l">>,
       <<"f","a","n","t","a","s","t","i","c">>, <<"g","o","o","d">>, <<"h","e","l","p","f","u","l">>, <<"e","a","s","y">>, <<"s","m","o","o","t","h">> >>

negativeWords ==
    << <<"b","u","g">>, <<"b","r","o","k","e","n">>, <<"c","r","a","s","h">>, <<"e","r","r","o","r">>, <<"f","a","i","l">>,
       <<"s","l","o","w">>, <<"b","a","d">>, <<"t","e","r","r","i","b","l","e">>, <<"w","o","r","s","t">>, <<"i","s","s","u","e">> >>

urgentWords ==
    << <<"u","r","g","e","n","t">>, <<"c","r","i","t","i","c","a","l">>, <<"p","r","o","d","u","c","t","i","o","n">>, <<"d","o","w","n">>, <<"b","l","o","c","k","e","r">>,
       <<"i","m","m","e","d","i","a","t","e","l","y">> >>

\* the number of places of s where w occurs
Occurrences(s, w) ==
    Cardinality({a \in 0..(Len(s) - Len(w)) : MatchesAt(s, w, a)})

\* the occurrences in s of the words of a list, added up
RECURSIVE TotalOccurrences(_, _)
TotalOccurrences(words, s) ==
    IF words = <<>> THEN 0
    ELSE Occurrences(s, Head(words)) + TotalOccurrences(Tail(words), s)

CountMatchingOccurrences(words, lowerContent) == TotalOccurrences(words, lowerContent)

\* words.filter((word) => lowerContent.includes(word)).length
CountMatching(words, lowerContent) ==
    Cardinality({k \in 1..Len(words) : includes(lowerContent, words[k])})

fallbackSentiment(positiveCount, negativeCount) ==
    IF positiveCount > negativeCount THEN "positive"
    ELSE IF negativeCount > positiveCount THEN "negative"
    ELSE "neutral"

fallbackUrgencyFromTwo(positiveCount, negativeCount, urgentCount) ==
    IF urgentCount > 0 THEN 5
    ELSE IF negativeCount >= 2 THEN 4
    ELSE IF negativeCount > 0 THEN 3
    ELSE IF positiveCount > 0 THEN 1
    ELSE 3

fallbackUrgency(positiveCount, negativeCount, urgentCount) ==
    IF urgentCount > 0 THEN 5
    ELSE IF negativeCount > 2 THEN 4
    ELSE IF negativeCount > 0 THEN 3
    ELSE IF positiveCount > 0 THEN 1
    ELSE 3

fallbackAnalysis(feedback) ==
    LET lowerContent == toLowerCase(feedback)
        positiveCount == CountMatching(positiveWords, lowerContent)
        negativeCount == CountMatching(negativeWords, lowerContent)
        urgentCount == CountMatching(urgentWords, lowerContent)
    IN  AnalysisResult(fallbackSentiment(positiveCount, negativeCount),
                       fallbackUrgency(positiveCount, negativeCount, urgentCount),
                       50, Str(FallbackMarker))

(***************************************************************************)
(* analyzeFeedback                                                         *)
(***************************************************************************)
\* jsonStr.replace(/```json\n?/g, '').replace(/```\n?/g, '')
StripFences(jsonStr) ==
    RemoveAll(RemoveAll(jsonStr, <<BackTick, BackTick, BackTick, "j", "s", "o", "n">>),
              <<BackTick, BackTick, BackTick>>)

\* jsonStr.match(/\{[\s\S]*\}/): from the first "{" to the last "}" after
\* it; <<>> stands for null (a match is never empty)
JsonMatch(jsonStr) ==
    LET opens == {k \in 1..Len(jsonStr) : jsonStr[k] = "{"}
        first == CHOOSE k \in opens : \A j \in opens : k <= j
        closes == IF opens = {} THEN {}
                  ELSE {k \in 1..Len(jsonStr) : jsonStr[k] = "}" /\ k > first}
        last == CHOOSE k \in closes : \A j \in closes : k >= j
    IN  IF closes = {} THEN <<>> ELSE SubSeq(jsonStr, first, last)

\* JSON.parse of a text that starts with "{" and ends with "}": an object
\* when the braces hold the members or nothing (white space apart), a
\* SyntaxError otherwise
JsonParse(text, members) ==
    LET inner == trim(SubSeq(text, 2, Len(text) - 1))
    IN  IF inner = <<>> THEN Return(EmptyObject)
        ELSE IF inner = <<Members>> THEN Return(members)
        ELSE Throw(ErrorObject("SyntaxError"), EmptyObject)

normalizeUrgencyNoClamp(urgency) == OrElse(parseInt(urgency), 3)

\* Math.min(5, Math.max(1, parseInt(analysis.urgency) || 3))
normalizeUrgency(urgency) == Min(5, Max(1, OrElse(parseInt(urgency), 3)))

\* parseFloat(analysis.confidence) || 0.7
normalizeConfidence(confidence) == OrElse(parseFloat(confidence), 70)

\* the try block, from the completion of ai.run to the return statement
TryBlock(outcome) ==
    IF outcome.kind = "throws" THEN Throw(outcome.thrown, NoResult)
    ELSE IF outcome.response \in {"null", "undefined"}
    THEN Throw(ErrorObject("TypeError: cannot read properties (reading 'response')"), NoResult)
    ELSE IF outcome.result.t # "string"
    THEN Throw(ErrorObject("TypeError: result.trim is not a function"), NoResult)
    ELSE LET jsonStr == StripFences(trim(outcome.result.s))
             jsonMatch == JsonMatch(jsonStr)
             parsed == JsonParse(jsonMatch, outcome.members)
             sentiment == normalizeSentiment(parsed.value.sentiment)
         IN  IF jsonMatch = <<>>
             THEN Throw(ErrorObject("No JSON found in AI response"), NoResult)
             ELSE IF parsed.threw THEN Throw(parsed.error, NoResult)
             ELSE IF sentiment.threw THEN Throw(sentiment.error, NoResult)
             ELSE Return(AnalysisResult(sentiment.value,
                                        normalizeUrgency(parsed.value.urgency),
                                        normalizeConfidence(parsed.value.confidence),
                                        parsed.value.reasoning))

\* the catch block: console.error(..., error.message), which itself throws
\* when the caught value is null or undefined, then the fallback
CatchBlock(error, feedback) ==
    IF IsNullish(error)
    THEN [settled |-> "rejected", value |-> NoResult, logged |-> <<>>]
    ELSE [settled |-> "fulfilled", value |-> fallbackAnalysis(feedback),
          logged |-> <<error.message>>]

\* analyzeFeedback(feedback, ai) when ai.run completes with outcome: how the
\* returned promise settles, with what value, and what console.error got
analyzeFeedback(feedback, outcome) ==
    LET try == TryBlock(outcome)
    IN  IF try.threw THEN CatchBlock(try.error, feedback)
        ELSE [settled |-> "fulfilled", value |-> try.value, logged |-> <<>>]

(***************************************************************************)
(* Inputs: feedback texts, and what the model call (ai.run) may do.        *)
(***************************************************************************)
\* the feedback texts handed to analyzeFeedback
Contents ==
    { <<>>, <<"g","r","e","a","t"," ">>, <<"B","r","o","k","e","n"," ">>,
      <<"T","h","e"," ","w","e","a","t","h","e","r"," ","t","o","d","a","y",".">>,
      <<"T","h","i","s"," ","i","s"," ","b","r","o","k","e","n"," ","a","n","d"," ","n","e","e","d","s"," ","u","r","g","e","n","t"," ","a","t","t","e","n","t","i","o","n","!">>,
      <<"G","r","e","a","t"," ","i","d","e","a",","," ","b","u","t"," ","t","h","e"," ","b","u","g"," ","m","a","d","e"," ","i","t"," ","c","r","a","s","h"," ","w","i","t","h"," ","a","n"," ","e","r","r","o","r">> }

\* the feedback texts of the items of a batch
BatchContents == { <<"g","r","e","a","t"," ">>, <<"T","h","i","s"," ","i","s"," ","b","r","o","k","e","n"," ","a","n","d"," ","n","e","e","d","s"," ","u","r","g","e","n","t"," ","a","t","t","e","n","t","i","o","n","!">> }

SentimentValues ==
    { Undefined, Str(<<"p","o","s","i","t","i","v","e">>), Str(<<"V","e","r","y","P","o","s","i","t","i","v","e","!">>), Str(<<"N","E","G","A","T","I","V","E">>),
      Str(<<"n","e","g","a","t","i","v","e",","," ","n","o","t"," ","p","o","s","i","t","i","v","e">>), Str(<<"m","i","x","e","d">>) }

MoreSentimentValues ==
    { Null, Num(100), Obj, Str(<<>>), Str(<<"n","e","u","t","r","a","l">>), Str(<<"S","o","m","e","w","h","a","t"," ","N","e","g","a","t","i","v","e">>) }

UrgencyValues ==
    { Undefined, Num(-300), Num(0), Num(100), Num(300), Num(9900), Str(<<"h","i","g","h">>) }

MoreUrgencyValues ==
    { Null, True, Obj, Num(50), Num(270), Num(500), Num(600),
      Str(<<"4">>), Str(<<"9","9">>), Str(<<"0">>), Str(<<" ","2","n","d">>), Str(<<"-","7">>) }

ConfidenceValues ==
    { Undefined, Num(-100), Num(0), Num(90), Num(8500), Str(<<"n","/","a">>) }

MoreConfidenceValues ==
    { Null, True, Obj, Num(1), Num(50), Num(70), Num(100), Num(101),
      Str(<<"0",".","9">>), Str(<<"8","5","%">>), Str(<<".","5">>), Str(<<"0",".","0">>) }

ReasoningValues == { Undefined, Str(FallbackMarker) }

MoreReasoningValues == { Null, Num(100), Str(<<"o","k">>) }

GoodObject ==
    [sentiment |-> Str(<<"p","o","s","i","t","i","v","e">>), urgency |-> Num(100),
     confidence |-> Num(90), reasoning |-> Undefined]

OddObject ==
    [sentiment |-> Str(<<"V","e","r","y","P","o","s","i","t","i","v","e","!">>), urgency |-> Num(9900),
     confidence |-> Str(<<"n","/","a">>), reasoning |-> Undefined]

\* the objects a response text may carry: every combination of the first
\* sets, and GoodObject with one value replaced by each of the others
ParsedObjects ==
    [sentiment : SentimentValues, urgency : UrgencyValues,
     confidence : ConfidenceValues, reasoning : ReasoningValues]
    \cup {[GoodObject EXCEPT !.sentiment = v] : v \in MoreSentimentValues}
    \cup {[GoodObject EXCEPT !.urgency = v] : v \in MoreUrgencyValues}
    \cup {[GoodObject EXCEPT !.confidence = v] : v \in MoreConfidenceValues}
    \cup {[GoodObject EXCEPT !.reasoning = v] : v \in MoreReasoningValues}
    \cup {OddObject}

\* response texts: text before, an opening fence, a body, a closing fence,
\* text after
ResponseTexts ==
    { pre \o open \o body \o close \o post :
        pre \in { <<>>, <<" ",NL>>, <<"S","u","r","e",":"," ">> },
        open \in { <<>>, <<BackTick,BackTick,BackTick,"j","s","o","n",NL>>, <<BackTick,BackTick,BackTick,NL>> },
        body \in { <<"{", Members, "}">>, <<"{", " ", Members, NL, "}">>,
                   <<"{", "}">>, <<Members>>, <<"{", "x", "}">>,
                   <<"{", Members, "}", "{", Members, "}">>,
                   <<"{", Members>>, <<>> },
        close \in { <<>>, <<NL,BackTick,BackTick,BackTick>> },
        post \in { <<>>, <<" ","o","k">>, <<" ","}">> } }

ThrownValues ==
    { ErrorObject("AI unavailable"), Primitive("string"),
      Primitive("null"), Primitive("undefined") }

\* ai.run rejects with thrown
Throws(thrown) ==
    [kind |-> "throws", thrown |-> thrown, response |-> "undefined",
     result |-> Undefined, members |-> EmptyObject]

\* ai.run resolves with null or undefined
Resolves(response) ==
    [kind |-> "returns", thrown |-> NoError, response |-> response,
     result |-> Undefined, members |-> EmptyObject]

\* ai.run resolves with an object whose response property is result
Responds(result, members) ==
    [kind |-> "returns", thrown |-> NoError, response |-> "object",
     result |-> result, members |-> members]

\* every behaviour of the model call the model covers
Outcomes ==
    {Throws(e) : e \in ThrownValues}
    \cup {Resolves(r) : r \in {"null", "undefined"}}
    \cup {Responds(r, EmptyObject) : r \in {Undefined, Null, Num(100)}}
    \cup {Responds(Str(t), GoodObject) : t \in ResponseTexts}
    \cup {Responds(Str(<<"{", Members, "}">>), m) : m \in ParsedObjects}

\* the behaviours of the model call inside a batch
BatchOutcomes ==
    { Throws(ErrorObject("AI unavailable")), Throws(Primitive("undefined")),
      Responds(Str(<<"n","o"," ","j","s","o","n"," ","h","e","r","e">>), EmptyObject),
      Responds(Str(<<"{", Members, "}">>), GoodObject) }

Ids == 1..MaxItems

\* lists of at most MaxItems items with distinct identifiers
FeedbackLists ==
    UNION { { l \in [1..n -> [id : Ids, content : BatchContents]] :
                \A a, b \in 1..n : a # b => l[a].id # l[b].id } : n \in 0..MaxItems }

(***************************************************************************)
(* The program: one invocation, of analyzeFeedback (as analyzeEndpoint     *)
(* calls it) or of batchAnalyzeFeedback (as analyzeAllFeedback calls it,   *)
(* with or without a progress callback).                                   *)
(*   content      the text of the current analyzeFeedback call            *)
(*   pc           "start", "loop", "awaitAi", "returned", "rejected"       *)
(*   i            the loop index of batchAnalyzeFeedback                   *)
(*   analysis     what the last analyzeFeedback call returned              *)
(*   results      the Map of batchAnalyzeFeedback                          *)
(*   outcomes     what each completed ai.run call did, in order            *)
(*   console      the messages given to console.error                      *)
(*   counts       positiveCount, negativeCount and urgentCount of          *)
(*                fallbackAnalysis when it is run on its own               *)
(*   invocations  the invocations of batchAnalyzeFeedback that run          *)
(*                interleaved, each with the fields above of its own       *)
(*   store        the rows of table feedback, by id                        *)
(*   requests     the requests to /api/analyze and /api/analyze-all that   *)
(*                are being served                                         *)
(*   trace        the calls of ai.run, console.error and onProgress and    *)
(*                the completions of ai.run, in order; k is the number of  *)
(*                the analyzeFeedback call, n the number of items          *)
(***************************************************************************)
Event(ev, k, n) == [ev |-> ev, k |-> k, n |-> n]

MapSet(map, key, value) ==
    [k \in (DOMAIN map) \cup {key} |-> IF k = key THEN value ELSE map[k]]

\* the three counts of fallbackAnalysis
Counts(positiveCount, negativeCount, urgentCount) ==
    [positiveCount |-> positiveCount, negativeCount |-> negativeCount,
     urgentCount |-> urgentCount]

NoCounts == Counts(0, 0, 0)

Init ==
    /\ entry \in {"analyzeFeedback", "batchAnalyzeFeedback"}
    /\ IF entry = "analyzeFeedback"
       THEN /\ content \in Contents
            /\ feedbackList = <<>>
            /\ onProgress = FALSE
            /\ pc = "start"
       ELSE /\ content = <<>>
            /\ feedbackList \in FeedbackLists
            /\ onProgress \in BOOLEAN
            /\ pc = "loop"
    /\ i = 0
    /\ analysis = NoResult
    /\ results = <<>>
    /\ outcomes = <<>>
    /\ console = <<>>
    /\ trace = <<>>
    /\ counts = NoCounts
    /\ invocations = <<>>
    /\ store = <<>>
    /\ requests = <<>>

\* analyzeFeedback(content, ai) is called and suspends at await ai.run(...)
AnalyzeCall ==
    /\ entry = "analyzeFeedback"
    /\ pc = "start"
    /\ pc' = "awaitAi"
    /\ trace' = Append(trace, Event("ai.run", 1, 1))
    /\ UNCHANGED <<entry, feedbackList, onProgress, content, i, analysis,
                   results, outcomes, console>>
    /\ UNCHANGED outside

\* ai.run completes and analyzeFeedback runs to its end
AnalyzeSettle ==
    /\ entry = "analyzeFeedback"
    /\ pc = "awaitAi"
    /\ \E outcome \in Outcomes :
         LET r == analyzeFeedback(content, outcome)
         IN  /\ outcomes' = Append(outcomes, outcome)
             /\ console' = console \o r.logged
             /\ trace' = Append(trace, Event("settled", 1, 1))
                          \o [k \in 1..Len(r.logged) |-> Event("console.error", 1, 1)]
             /\ IF r.settled = "rejected"
                THEN pc' = "rejected" /\ UNCHANGED analysis
                ELSE pc' = "returned" /\ analysis' = r.value
    /\ UNCHANGED <<entry, feedbackList, onProgress, content, i, results>>
    /\ UNCHANGED outside

\* the loop of batchAnalyzeFeedback takes item i and calls analyzeFeedback,
\* which suspends at await ai.run(...)
BatchCall ==
    /\ entry = "batchAnalyzeFeedback"
    /\ pc = "loop"
    /\ i < Len(feedbackList)
    /\ content' = feedbackList[i + 1].content
    /\ pc' = "awaitAi"
    /\ trace' = Append(trace, Event("ai.run", i + 1, Len(feedbackList)))
    /\ UNCHANGED <<entry, feedbackList, onProgress, i, analysis, results,
                   outcomes, console>>
    /\ UNCHANGED outside

\* ai.run completes, analyzeFeedback runs to its end, and the loop body
\* stores the result and reports progress; a rejection of analyzeFeedback
\* rejects batchAnalyzeFeedback
BatchSettle ==
    /\ entry = "batchAnalyzeFeedback"
    /\ pc = "awaitAi"
    /\ \E outcome \in BatchOutcomes :
         LET r == analyzeFeedback(content, outcome)
             n == Len(feedbackList)
             settled == Append(trace, Event("settled", i + 1, n))
                        \o [k \in 1..Len(r.logged) |-> Event("console.error", i + 1, n)]
         IN  /\ outcomes' = Append(outcomes, outcome)
             /\ console' = console \o r.logged
             /\ IF r.settled = "rejected"
                THEN /\ pc' = "rejected"
                     /\ trace' = settled
                     /\ UNCHANGED <<analysis, results, i>>
                ELSE /\ pc' = "loop"
                     /\ analysis' = r.value
                     /\ results' = MapSet(results, feedbackList[i + 1].id, r.value)
                     /\ trace' = IF onProgress
                                 THEN Append(settled, Event("onProgress", i + 1, n))
                                 ELSE settled
                     /\ i' = i + 1
    /\ UNCHANGED <<entry, feedbackList, onProgress, content>>
    /\ UNCHANGED outside

\* the loop ends and batchAnalyzeFeedback returns results
BatchReturn ==
    /\ entry = "batchAnalyzeFeedback"
    /\ pc = "loop"
    /\ i >= Len(feedbackList)
    /\ pc' = "returned"
    /\ UNCHANGED <<entry, feedbackList, onProgress, content, i, analysis,
                   results, outcomes, console, trace>>
    /\ UNCHANGED outside

Next ==
    \/ AnalyzeCall
    \/ AnalyzeSettle
    \/ BatchCall
    \/ BatchSettle
    \/ BatchReturn

Spec == Init /\ [][Next]_vars

(***************************************************************************)
(* What the properties below read from a state.                            *)
(***************************************************************************)
\* what the last completed ai.run call did
LastOutcome == outcomes[Len(outcomes)]

\* the last analyzeFeedback call has ended; content is still its text
JustSettled == outcomes # <<>> /\ pc # "awaitAi"

\* the last analyzeFeedback call went through its catch block as far as
\* console.error
LastCallLogged ==
    \E a \in DOMAIN trace :
        trace[a].ev = "console.error" /\ trace[a].k = Len(outcomes)

\* the last analyzeFeedback call returned from its try block
OnModelPath == JustSettled /\ pc # "rejected" /\ ~LastCallLogged

\* ai.run resolved with an object that has a response text
HasText(outcome) ==
    /\ outcome.kind = "returns"
    /\ outcome.response = "object"
    /\ outcome.result.t = "string"

\* the brace-delimited substring of a response text (<<>> when it has none)
Extracted(outcome) == JsonMatch(StripFences(trim(outcome.result.s)))

\* the response text holds a brace-delimited substring that is valid JSON
ParsesAsObject(outcome) ==
    /\ HasText(outcome)
    /\ Extracted(outcome) # <<>>
    /\ ~JsonParse(Extracted(outcome), outcome.members).threw

\* the object parsed from the last response (on the model path)
LastParsed == JsonParse(Extracted(LastOutcome), LastOutcome.members).value

\* s holds w as a substring
Contains(s, w) ==
    \E a \in 1..Len(s) : a + Len(w) - 1 <= Len(s) /\ SubSeq(s, a, a + Len(w) - 1) = w

IsProgress(e) == e.ev = "onProgress"

\* the calls of onProgress, in order
ProgressCalls == SelectSeq(trace, IsProgress)

(***************************************************************************)
(* C1: analyzeFeedback never throws or rejects to its caller: whatever     *)
(* the model call does (returns any value, or throws any value), the call  *)
(* completes by returning.                                                 *)
(***************************************************************************)
C1_NeverRejects == entry = "analyzeFeedback" => pc # "rejected"

\* a result with a sentiment of the three and an urgency from 1 to 5
InRange(a) == a.sentiment \in Sentiments /\ a.urgency \in 1..5

(***************************************************************************)
(* C2: every AnalysisResult analyzeFeedback returns, on the model path and *)
(* on the fallback path, has sentiment positive, negative or neutral and   *)
(* urgency an integer from 1 to 5 (also once stored by the batch runner).  *)
(***************************************************************************)
C2_SentimentUrgencyInRange ==
    /\ analysis # NoResult => InRange(analysis)
    /\ \A id \in DOMAIN results : InRange(results[id])

\* a response with an unrecognised sentiment and urgency 99 was returned
\* as neutral with urgency 5
C2_Witness ==
    /\ OnModelPath
    /\ LastParsed.sentiment = Str(<<"m","i","x","e","d">>)
    /\ LastParsed.urgency = Num(9900)
    /\ analysis.sentiment = "neutral"
    /\ analysis.urgency = 5

(***************************************************************************)
(* C3: every AnalysisResult analyzeFeedback returns has confidence between *)
(* 0 and 1 (0 and 100 hundredths), whatever confidence the response held.  *)
(***************************************************************************)
C3_ConfidenceInUnitInterval ==
    analysis # NoResult => analysis.confidence >= 0 /\ analysis.confidence <= 100

\* the model call threw, or its response text holds no brace-delimited
\* substring, or that substring is not valid JSON
FallbackTrigger(outcome) ==
    \/ outcome.kind = "throws"
    \/ /\ HasText(outcome)
       /\ \/ Extracted(outcome) = <<>>
          \/ JsonParse(Extracted(outcome), outcome.members).threw

(***************************************************************************)
(* C4: whenever the model call throws, or its response has no              *)
(* brace-delimited substring, or that substring is not valid JSON,         *)
(* analyzeFeedback returns the fallback heuristic's result for the text:   *)
(* confidence 0.5 and the fixed marker as reasoning.                       *)
(***************************************************************************)
C4_FallbackOnFailure ==
    (JustSettled /\ FallbackTrigger(LastOutcome)) =>
        /\ pc # "rejected"
        /\ analysis = fallbackAnalysis(content)
        /\ analysis.confidence = 50
        /\ analysis.reasoning = Str(FallbackMarker)

(***************************************************************************)
(* C5: when the response parses as a JSON object whose fields are missing, *)
(* wrong-typed or out of range, analyzeFeedback stays on the model path:   *)
(* the fallback heuristic is not invoked, a bad sentiment becomes neutral, *)
(* a bad urgency 3 or a clamped value, a bad confidence 0.7.               *)
(***************************************************************************)
C5_NoFallbackForBadFields ==
    (JustSettled /\ ParsesAsObject(LastOutcome)) =>
        /\ OnModelPath
        /\ LastParsed.sentiment.t # "string" => analysis.sentiment = "neutral"
        /\ parseInt(LastParsed.urgency).nan => analysis.urgency = 3
        /\ parseFloat(LastParsed.confidence).nan => analysis.confidence = 70

(***************************************************************************)
(* C6: batchAnalyzeFeedback over N items with distinct identifiers always  *)
(* completes (no failure path, whichever model calls fail) and returns a   *)
(* map with exactly N entries, one per identifier, each the result of      *)
(* that item's own text.                                                   *)
(***************************************************************************)
C6_BatchComplete ==
    entry = "batchAnalyzeFeedback" =>
        /\ pc # "rejected"
        /\ pc = "returned" =>
             /\ DOMAIN results = {feedbackList[k].id : k \in 1..Len(feedbackList)}
             /\ Cardinality(DOMAIN results) = Len(feedbackList)
             /\ \A k \in 1..Len(feedbackList) :
                  results[feedbackList[k].id]
                    = analyzeFeedback(feedbackList[k].content, outcomes[k]).value

\* the place of an event in trace (0 when it is not there)
PlaceOf(e) ==
    IF \E a \in DOMAIN trace : trace[a] = e
    THEN CHOOSE a \in DOMAIN trace : trace[a] = e
    ELSE 0

(***************************************************************************)
(* C7: batchAnalyzeFeedback works through the items in input order, one    *)
(* at a time: the model call of item k+1 begins only after the model call  *)
(* of item k has completed, and a progress callback is invoked exactly N   *)
(* times, the k-th time with (k, N), after item k is classified and before *)
(* the model call of item k+1 begins.                                      *)
(***************************************************************************)
C7_SequentialProgress ==
    entry = "batchAnalyzeFeedback" =>
        LET n == Len(feedbackList)
        IN  /\ \A k \in 1..n :
                 LET call == PlaceOf(Event("ai.run", k, n))
                     done == PlaceOf(Event("settled", k, n))
                     told == PlaceOf(Event("onProgress", k, n))
                     next == PlaceOf(Event("ai.run", k + 1, n))
                 IN  /\ done # 0 => call # 0 /\ call < done
                     /\ told # 0 => done # 0 /\ done < told
                     /\ next # 0 => done # 0 /\ done < next
                     /\ (next # 0 /\ onProgress) => told # 0 /\ told < next
            /\ \A j \in 1..Len(ProgressCalls) : ProgressCalls[j] = Event("onProgress", j, n)
            /\ ~onProgress => ProgressCalls = <<>>
            /\ (onProgress /\ pc \in {"returned", "rejected"}) => Len(ProgressCalls) = n

\* default 3 when parsing yields no number, then the clamp into 1..5
ClaimedUrgency(urgency) ==
    LET n == parseInt(urgency)
    IN  IF n.nan THEN 3
        ELSE IF n.v < 1 THEN 1
        ELSE IF n.v > 5 THEN 5
        ELSE n.v

(***************************************************************************)
(* C8: on the model path urgency is 3 when the response's urgency is       *)
(* missing or does not parse to a number; otherwise the parsed integer     *)
(* clamped into 1..5: below 1 gives 1, above 5 gives 5, 1..5 unchanged.    *)
(***************************************************************************)
C8_UrgencyClamped ==
    OnModelPath => analysis.urgency = ClaimedUrgency(LastParsed.urgency)

\* the parsed number, 0.7 only when parsing yields no number
ClaimedConfidence(confidence) ==
    LET n == parseFloat(confidence) IN IF n.nan THEN 70 ELSE n.v

(***************************************************************************)
(* C9: on the model path confidence is the number the response's           *)
(* confidence parses to; the default 0.7 is used only when it is missing   *)
(* or does not parse to a number.                                          *)
(***************************************************************************)
C9_ConfidenceParsed ==
    OnModelPath => analysis.confidence = ClaimedConfidence(LastParsed.confidence)

(***************************************************************************)
(* C10: on the model path sentiment is decided by substring containment    *)
(* on the lower-cased value: positive if it contains "positive", otherwise *)
(* negative if it contains "negative", otherwise neutral.                  *)
(***************************************************************************)
C10_SentimentByContainment ==
    OnModelPath =>
        LET lower == toLowerCase(LastParsed.sentiment.s)
        IN  analysis.sentiment =
              IF Contains(lower, <<"p","o","s","i","t","i","v","e">>) THEN "positive"
              ELSE IF Contains(lower, <<"n","e","g","a","t","i","v","e">>) THEN "negative"
              ELSE "neutral"

\* a value holding both words, "negative" first, was returned as positive
C10_Witness ==
    /\ OnModelPath
    /\ LastParsed.sentiment = Str(<<"n","e","g","a","t","i","v","e",","," ","n","o","t"," ","p","o","s","i","t","i","v","e">>)
    /\ analysis.sentiment = "positive"

\* the place a b of s, from a "{" to a "}", holds the text of a JSON object
IsObjectText(s, a, b) ==
    /\ s[a] = "{"
    /\ s[b] = "}"
    /\ trim(SubSeq(s, a + 1, b - 1)) = <<Members>>

\* the response text holds a valid JSON object somewhere (inside a fence or
\* not, with or without text around it) whose sentiment is a string
HoldsObject(outcome) ==
    /\ HasText(outcome)
    /\ outcome.members.sentiment.t = "string"
    /\ \E a, b \in 1..Len(outcome.result.s) :
         a < b /\ IsObjectText(outcome.result.s, a, b)

\* the AnalysisResult made of the fields of an object
DerivedFrom(members) ==
    AnalysisResult(normalizeSentiment(members.sentiment).value,
                   normalizeUrgency(members.urgency),
                   normalizeConfidence(members.confidence),
                   members.reasoning)

(***************************************************************************)
(* C11: whenever the response text contains a valid JSON object, wrapped   *)
(* in a code fence and/or with other text before or after it,              *)
(* analyzeFeedback returns the result derived from that object's fields,   *)
(* not the fallback heuristic's.                                           *)
(***************************************************************************)
C11_ObjectFoundAnywhere ==
    (JustSettled /\ HoldsObject(LastOutcome)) =>
        /\ OnModelPath
        /\ analysis = DerivedFrom(LastOutcome.members)

(***************************************************************************)
(* fallbackAnalysis on its own: the function is applied to a text built    *)
(* from fragments, and its three counts are kept next to its result.       *)
(***************************************************************************)
Fragments ==
    { <<"B","u","g"," ">>, <<"c","r","a","s","h"," ">>, <<"E","R","R","O","R","!"," ">>, <<"g","r","e","a","t"," ">>, <<"L","o","v","e"," ","i","t","."," ">>,
      <<"u","r","g","e","n","t"," ">>, <<"t","h","e"," ","a","p","p"," ">>, <<"s","l","o","w",","," ","b","a","d",","," ","f","a","i","l","s"," ">>,
      <<"g","o","o","d"," ","e","a","s","y"," ","s","m","o","o","t","h"," ","h","e","l","p","f","u","l"," ">> }

RECURSIVE Concat(_)
Concat(parts) == IF parts = <<>> THEN <<>> ELSE Head(parts) \o Concat(Tail(parts))

\* the texts of at most MaxFragments fragments
FallbackTexts ==
    UNION { {Concat(parts) : parts \in [1..n -> Fragments]} : n \in 0..MaxFragments }

InitFallback ==
    /\ entry = "fallbackAnalysis"
    /\ content \in FallbackTexts
    /\ feedbackList = <<>>
    /\ onProgress = FALSE
    /\ pc = "start"
    /\ i = 0
    /\ analysis = NoResult
    /\ results = <<>>
    /\ outcomes = <<>>
    /\ console = <<>>
    /\ trace = <<>>
    /\ counts = NoCounts
    /\ invocations = <<>>
    /\ store = <<>>
    /\ requests = <<>>

\* fallbackAnalysis(content) runs from its first line to its return
FallbackRun ==
    /\ entry = "fallbackAnalysis"
    /\ pc = "start"
    /\ LET lowerContent == toLowerCase(content)
       IN  counts' = Counts(CountMatching(positiveWords, lowerContent),
                            CountMatching(negativeWords, lowerContent),
                            CountMatching(urgentWords, lowerContent))
    /\ analysis' = fallbackAnalysis(content)
    /\ pc' = "returned"
    /\ UNCHANGED <<entry, feedbackList, onProgress, content, i, results,
                   outcomes, console, trace, invocations, store, requests>>

NextFallback == FallbackRun

SpecFallback == InitFallback /\ [][NextFallback]_vars

\* fallbackAnalysis has returned
FallbackDone == entry = "fallbackAnalysis" /\ pc = "returned"

\* the words of a lexicon that s holds at least once
WordsIn(words, s) == {w \in {words[k] : k \in 1..Len(words)} : Contains(s, w)}

(***************************************************************************)
(* C12 as stated: each count of the fallback heuristic is the number of    *)
(* occurrences in the lower-cased text of words of its lexicon, a word     *)
(* that occurs several times counting each time.                           *)
(***************************************************************************)
C12_CountsOccurrences ==
    FallbackDone =>
        LET lower == toLowerCase(content)
        IN  /\ counts.positiveCount = TotalOccurrences(positiveWords, lower)
            /\ counts.negativeCount = TotalOccurrences(negativeWords, lower)
            /\ counts.urgentCount = TotalOccurrences(urgentWords, lower)

(***************************************************************************)
(* C12 amended: each count of the fallback heuristic is the number of      *)
(* distinct words of its lexicon that occur at least once as a substring   *)
(* of the lower-cased text; a word that occurs several times counts once.  *)
(***************************************************************************)
C12_CountsDistinctWords ==
    FallbackDone =>
        LET lower == toLowerCase(content)
        IN  /\ counts.positiveCount = Cardinality(WordsIn(positiveWords, lower))
            /\ counts.negativeCount = Cardinality(WordsIn(negativeWords, lower))
            /\ counts.urgentCount = Cardinality(WordsIn(urgentWords, lower))

\* a text with the same negative word three times was counted as one
C12_Witness ==
    /\ FallbackDone
    /\ content = <<"B","u","g"," ","B","u","g"," ","B","u","g"," ">>
    /\ counts.negativeCount = 1
    /\ analysis.urgency = 3

(***************************************************************************)
(* C13: given the three counts, the fallback heuristic returns sentiment   *)
(* positive if positive-count > negative-count, negative if negative-count *)
(* > positive-count, else neutral; urgency 5 if urgent-count > 0, else 4   *)
(* if negative-count > 2, else 3 if negative-count is 1 or 2, else 1 if    *)
(* positive-count > 0, else 3; confidence 0.5; reasoning the fixed marker. *)
(***************************************************************************)
C13_FallbackDecision ==
    FallbackDone =>
        LET p == counts.positiveCount
            n == counts.negativeCount
            u == counts.urgentCount
        IN  /\ p > n => analysis.sentiment = "positive"
            /\ n > p => analysis.sentiment = "negative"
            /\ n = p => analysis.sentiment = "neutral"
            /\ u > 0 => analysis.urgency = 5
            /\ (u = 0 /\ n > 2) => analysis.urgency = 4
            /\ (u = 0 /\ n \in {1, 2}) => analysis.urgency = 3
            /\ (u = 0 /\ n = 0 /\ p > 0) => analysis.urgency = 1
            /\ (u = 0 /\ n = 0 /\ p = 0) => analysis.urgency = 3
            /\ analysis.confidence = 50
            /\ analysis.reasoning = Str(FallbackMarker)

\* more positive than negative words, three negative ones and no urgent
\* one: positive with urgency 4
C13_Witness ==
    /\ FallbackDone
    /\ counts.positiveCount > counts.negativeCount
    /\ counts.negativeCount > 2
    /\ counts.urgentCount = 0
    /\ analysis.sentiment = "positive"
    /\ analysis.urgency = 4

(***************************************************************************)
(* Two invocations of batchAnalyzeFeedback served at the same time: each   *)
(* runs until its await of ai.run, where the other may run.  Each has its  *)
(* own parameters and locals (feedbackList, onProgress, results, i); the   *)
(* console is the one thing both write to.                                 *)
(*   progress     the calls of this invocation's onProgress, as <<k, n>>   *)
(*   interleaved  a model call of this invocation completed while the      *)
(*                other invocation was suspended at its own                *)
(***************************************************************************)
Invocations == {"first", "second"}

\* the text of the feedback row with an identifier
RowText(id) ==
    IF id % 2 = 1 THEN <<"g","r","e","a","t"," ">> ELSE <<"B","r","o","k","e","n"," ">>

\* the lists the invocations are given: the first n rows
RowLists == { [k \in 1..n |-> [id |-> k, content |-> RowText(k)]] : n \in 0..MaxItems }

\* the behaviours of the model call of an interleaved invocation
InterleavedOutcomes ==
    { Throws(ErrorObject("AI unavailable")), Throws(Primitive("undefined")),
      Responds(Str(<<"{", Members, "}">>), GoodObject) }

\* a fresh invocation batchAnalyzeFeedback(list, ai, callback)
Invocation(list, callback) ==
    [feedbackList |-> list, onProgress |-> callback, content |-> <<>>,
     pc |-> "loop", i |-> 0, results |-> <<>>, outcomes |-> <<>>,
     progress |-> <<>>, interleaved |-> FALSE]

InitInterleaved ==
    /\ invocations \in [Invocations -> {Invocation(l, c) : l \in RowLists, c \in BOOLEAN}]
    /\ entry = "interleaved"
    /\ feedbackList = <<>>
    /\ onProgress = FALSE
    /\ content = <<>>
    /\ pc = "start"
    /\ i = 0
    /\ analysis = NoResult
    /\ results = <<>>
    /\ outcomes = <<>>
    /\ console = <<>>
    /\ trace = <<>>
    /\ counts = NoCounts
    /\ store = <<>>
    /\ requests = <<>>

StoreResultShared(all, p, id, value) ==
    [q \in DOMAIN all |-> [all[q] EXCEPT !.results = MapSet(@, id, value)]]

\* results.set(item.id, analysis) on the Map of invocation p
StoreResult(all, p, id, value) ==
    [all EXCEPT ![p].results = MapSet(@, id, value)]

\* the loop of invocation p takes its next item and suspends at await ai.run
InterleavedCall(p) ==
    LET inv == invocations[p]
    IN  /\ inv.pc = "loop"
        /\ inv.i < Len(inv.feedbackList)
        /\ invocations' = [invocations EXCEPT
                             ![p].content = inv.feedbackList[inv.i + 1].content,
                             ![p].pc = "awaitAi"]
        /\ UNCHANGED <<alone, console, counts, store, requests>>

\* the model call of invocation p completes; analyzeFeedback runs to its
\* end and the loop body stores the result and reports progress
InterleavedSettle(p) ==
    LET inv == invocations[p]
        n == Len(inv.feedbackList)
        overlap == \E q \in Invocations \ {p} : invocations[q].pc = "awaitAi"
    IN  /\ inv.pc = "awaitAi"
        /\ \E outcome \in InterleavedOutcomes :
             LET r == analyzeFeedback(inv.content, outcome)
                 stored == StoreResult(invocations, p, inv.feedbackList[inv.i + 1].id, r.value)
             IN  /\ console' = console \o r.logged
                 /\ invocations' =
                      IF r.settled = "rejected"
                      THEN [invocations EXCEPT
                              ![p].pc = "rejected",
                              ![p].outcomes = Append(@, outcome),
                              ![p].interleaved = @ \/ overlap]
                      ELSE [stored EXCEPT
                              ![p].pc = "loop",
                              ![p].outcomes = Append(@, outcome),
                              ![p].interleaved = @ \/ overlap,
                              ![p].progress = IF inv.onProgress
                                              THEN Append(@, <<inv.i + 1, n>>)
                                              ELSE @,
                              ![p].i = inv.i + 1]
        /\ UNCHANGED <<alone, counts, store, requests>>

\* the loop of invocation p ends and it returns its Map
InterleavedReturn(p) ==
    LET inv == invocations[p]
    IN  /\ inv.pc = "loop"
        /\ inv.i >= Len(inv.feedbackList)
        /\ invocations' = [invocations EXCEPT ![p].pc = "returned"]
        /\ UNCHANGED <<alone, console, counts, store, requests>>

NextInterleaved ==
    \E p \in Invocations :
        \/ InterleavedCall(p)
        \/ InterleavedSettle(p)
        \/ InterleavedReturn(p)

SpecInterleaved == InitInterleaved /\ [][NextInterleaved]_vars

\* one more turn of the loop of an invocation that runs with no other: done
\* is where it stands after the model calls before the k-th, and out is how
\* the k-th completes
TurnAlone(list, callback, done, k, out) ==
    LET r == analyzeFeedback(list[k].content, out)
    IN  IF done.rejected \/ r.settled = "rejected"
        THEN [done EXCEPT !.rejected = TRUE]
        ELSE [rejected |-> FALSE,
              results |-> [id \in DOMAIN done.results \cup {list[k].id} |->
                             IF id = list[k].id THEN r.value ELSE done.results[id]],
              progress |-> IF callback
                           THEN Append(done.progress, <<k, Len(list)>>)
                           ELSE done.progress]

\* what batchAnalyzeFeedback(list, ai, callback) does when it runs with no
\* other invocation and its model calls complete as outs, in order
RECURSIVE RunAlone(_, _, _)
RunAlone(list, callback, outs) ==
    IF outs = <<>>
    THEN [rejected |-> FALSE, results |-> <<>>, progress |-> <<>>]
    ELSE TurnAlone(list, callback,
                   RunAlone(list, callback, SubSeq(outs, 1, Len(outs) - 1)),
                   Len(outs), outs[Len(outs)])

(***************************************************************************)
(* C14: when two invocations of batchAnalyzeFeedback run interleaved at    *)
(* their model-call suspension points, each returns the result map and     *)
(* makes the progress-callback sequence it would make running alone with   *)
(* the same model responses: no state is shared between them.              *)
(***************************************************************************)
C14_InvocationsIndependent ==
    entry = "interleaved" =>
        \A p \in Invocations :
            LET inv == invocations[p]
            IN  /\ RunAlone(inv.feedbackList, inv.onProgress, inv.outcomes)
                     = [rejected |-> inv.pc = "rejected", results |-> inv.results,
                        progress |-> inv.progress]
                /\ inv.pc = "returned" =>
                     /\ Len(inv.outcomes) = Len(inv.feedbackList)
                     /\ DOMAIN inv.results
                          = {inv.feedbackList[k].id : k \in 1..Len(inv.feedbackList)}

\* both invocations returned after model calls of each completed while the
\* other was suspended, with different results for the same rows
C14_Witness ==
    /\ entry = "interleaved"
    /\ \A p \in Invocations :
         /\ invocations[p].pc = "returned"
         /\ invocations[p].interleaved
         /\ Len(invocations[p].feedbackList) = 2
    /\ invocations["first"].onProgress
    /\ invocations["first"].progress = <<<<1, 2>>, <<2, 2>>>>
    /\ invocations["first"].results[1] # invocations["second"].results[1]
    /\ invocations["first"].results[2] # invocations["second"].results[2]

(***************************************************************************)
(* Requests served at the same time over table feedback: POST              *)
(* /api/analyze-all (analyzeAllFeedback) and POST /api/analyze with an id  *)
(* and no content (analyzeEndpoint).  A handler runs until an await; a     *)
(* step is the completion of what it awaits (a statement run by the        *)
(* database, or the model call) followed by the handler's code up to its   *)
(* next await.                                                             *)
(*   pc       "start"     the first SELECT is on its way                   *)
(*            "awaitAi"   suspended at await ai.run                        *)
(*            "update"    an UPDATE is on its way                          *)
(*            "responded" the Response is returned (status)                *)
(*   results  the entries of the Map of batchAnalyzeFeedback, in order     *)
(*   j        the entries already written by the loop of UPDATEs           *)
(***************************************************************************)
Requesters == {"one", "two"}

SqlNull == "NULL"

RowIds == 1..MaxRows

\* a row of table feedback
Row(id, sentiment, urgency) ==
    [source |-> "support", content |-> RowText(id), author |-> SqlNull,
     created_at |-> "CURRENT_TIMESTAMP", sentiment |-> sentiment,
     urgency |-> urgency, themes |-> SqlNull]

\* the tables the requests may find: every row either not analysed yet
\* (sentiment NULL, urgency the default 3) or analysed as neutral
Stores ==
    { [id \in RowIds |-> Row(id, s[id], 3)] : s \in [RowIds -> {SqlNull, "neutral"}] }

\* a request at the entry of its handler; id is body.id (0 when there is none)
Request(handler, id) ==
    [handler |-> handler, id |-> id, pc |-> "start", feedbackList |-> <<>>,
     i |-> 0, content |-> <<>>, results |-> <<>>, j |-> 0,
     analysis |-> NoResult, status |-> 0]

\* the requests: analyze-all, or analyze by the id of a row or of no row
Arrivals ==
    {Request("analyzeAllFeedback", 0)}
    \cup {Request("analyzeEndpoint", id) : id \in 1..(MaxRows + 1)}

InitRequests ==
    /\ store \in Stores
    /\ requests \in { r \in [Requesters -> Arrivals] :
                        r["one"].handler = "analyzeAllFeedback" }
    /\ entry = "requests"
    /\ feedbackList = <<>>
    /\ onProgress = FALSE
    /\ content = <<>>
    /\ pc = "start"
    /\ i = 0
    /\ analysis = NoResult
    /\ results = <<>>
    /\ outcomes = <<>>
    /\ console = <<>>
    /\ trace = <<>>
    /\ counts = NoCounts
    /\ invocations = <<>>

\* UPDATE feedback SET sentiment = ?, urgency = ? WHERE id = ?
SqlUpdate(rows, id, sentiment, urgency) ==
    [r \in DOMAIN rows |->
       IF r = id
       THEN [rows[r] EXCEPT !.sentiment = sentiment, !.urgency = urgency]
       ELSE rows[r]]

\* SELECT id, content FROM feedback WHERE sentiment IS NULL LIMIT ...: the
\* results the database may return (no ORDER BY: any rows, in any order)
SqlSelectNull(rows) ==
    LET nulls == {id \in DOMAIN rows : rows[id].sentiment = SqlNull}
        n == Min(SelectLimit, Cardinality(nulls))
    IN  { [k \in 1..n |-> [id |-> picked[k], content |-> rows[picked[k]].content]] :
            picked \in { f \in [1..n -> nulls] :
                           \A a, b \in 1..n : a # b => f[a] # f[b] } }

\* analyzeAllFeedback: the SELECT is run; with no row the handler responds,
\* else batchAnalyzeFeedback starts and suspends at its first model call
AllSelect(q) ==
    LET req == requests[q]
    IN  /\ req.handler = "analyzeAllFeedback"
        /\ req.pc = "start"
        /\ \E list \in SqlSelectNull(store) :
             requests' =
               IF list = <<>>
               THEN [requests EXCEPT ![q].pc = "responded", ![q].status = 200]
               ELSE [requests EXCEPT ![q].feedbackList = list,
                                     ![q].content = list[1].content,
                                     ![q].pc = "awaitAi"]
        /\ UNCHANGED <<alone, console, counts, invocations, store>>

\* analyzeAllFeedback: a model call of the batch completes; the batch stores
\* the result and goes on to its next model call or returns, and then the
\* first UPDATE is issued; a rejection is answered with status 500
AllSettle(q) ==
    LET req == requests[q]
    IN  /\ req.handler = "analyzeAllFeedback"
        /\ req.pc = "awaitAi"
        /\ \E outcome \in InterleavedOutcomes :
             LET r == analyzeFeedback(req.content, outcome)
                 item == req.feedbackList[req.i + 1]
             IN  /\ console' = console \o r.logged
                 /\ requests' =
                      IF r.settled = "rejected"
                      THEN [requests EXCEPT ![q].pc = "responded", ![q].status = 500]
                      ELSE IF req.i + 1 < Len(req.feedbackList)
                      THEN [requests EXCEPT
                              ![q].results = Append(@, [id |-> item.id, analysis |-> r.value]),
                              ![q].analysis = r.value,
                              ![q].i = req.i + 1,
                              ![q].content = req.feedbackList[req.i + 2].content]
                      ELSE [requests EXCEPT
                              ![q].results = Append(@, [id |-> item.id, analysis |-> r.value]),
                              ![q].analysis = r.value,
                              ![q].i = req.i + 1,
                              ![q].pc = "update"]
        /\ UNCHANGED <<alone, counts, invocations, store>>

\* analyzeAllFeedback: the UPDATE of the next entry of the Map is run; the
\* loop issues the next one or the handler responds
AllUpdate(q) ==
    LET req == requests[q]
        e == req.results[req.j + 1]
    IN  /\ req.handler = "analyzeAllFeedback"
        /\ req.pc = "update"
        /\ store' = SqlUpdate(store, e.id, e.analysis.sentiment, e.analysis.urgency)
        /\ requests' =
             IF req.j + 1 < Len(req.results)
             THEN [requests EXCEPT ![q].j = req.j + 1]
             ELSE [requests EXCEPT ![q].j = req.j + 1, ![q].pc = "responded",
                                   ![q].status = 200]
        /\ UNCHANGED <<alone, console, counts, invocations>>

\* analyzeEndpoint: SELECT content FROM feedback WHERE id = ? is run; with
\* no row the handler responds 404, else analyzeFeedback starts and
\* suspends at its model call
EndpointSelect(q) ==
    LET req == requests[q]
    IN  /\ req.handler = "analyzeEndpoint"
        /\ req.pc = "start"
        /\ requests' =
             IF req.id \notin DOMAIN store
             THEN [requests EXCEPT ![q].pc = "responded", ![q].status = 404]
             ELSE [requests EXCEPT ![q].content = store[req.id].content,
                                   ![q].pc = "awaitAi"]
        /\ UNCHANGED <<alone, console, counts, invocations, store>>

\* analyzeEndpoint: the model call completes, analyzeFeedback returns and
\* the UPDATE is issued; a rejection is answered with status 500
EndpointSettle(q) ==
    LET req == requests[q]
    IN  /\ req.handler = "analyzeEndpoint"
        /\ req.pc = "awaitAi"
        /\ \E outcome \in InterleavedOutcomes :
             LET r == analyzeFeedback(req.content, outcome)
             IN  /\ console' = console \o r.logged
                 /\ requests' =
                      IF r.settled = "rejected"
                      THEN [requests EXCEPT ![q].pc = "responded", ![q].status = 500]
                      ELSE [requests EXCEPT ![q].analysis = r.value,
                                            ![q].pc = "update"]
        /\ UNCHANGED <<alone, counts, invocations, store>>

\* analyzeEndpoint: the UPDATE is run and the handler responds
EndpointUpdate(q) ==
    LET req == requests[q]
    IN  /\ req.handler = "analyzeEndpoint"
        /\ req.pc = "update"
        /\ store' = SqlUpdate(store, req.id, req.analysis.sentiment, req.analysis.urgency)
        /\ requests' = [requests EXCEPT ![q].pc = "responded", ![q].status = 200]
        /\ UNCHANGED <<alone, console, counts, invocations>>

NextRequests ==
    \E q \in Requesters :
        \/ AllSelect(q)
        \/ AllSettle(q)
        \/ AllUpdate(q)
        \/ EndpointSelect(q)
        \/ EndpointSettle(q)
        \/ EndpointUpdate(q)

SpecRequests == InitRequests /\ [][NextRequests]_vars

\* this step is a step of request q, which is an analyze-all
AnalyzeAllStep(q) ==
    /\ requests[q].handler = "analyzeAllFeedback"
    /\ requests'[q] # requests[q]

\* this step runs an UPDATE of request q
UpdateStep(q) == requests[q].pc = "update" /\ requests'[q] # requests[q]

\* the row the UPDATE on its way names
UpdateTarget(q) == requests[q].results[requests[q].j + 1].id

\* the rows the SELECT of a request returned
Selected(req) == {req.feedbackList[k].id : k \in 1..Len(req.feedbackList)}

\* id is the only row that differs, and only in sentiment and urgency
OnlyAnalysisOf(id) ==
    /\ DOMAIN store' = DOMAIN store
    /\ \A r \in DOMAIN store :
         IF r = id
         THEN [store'[r] EXCEPT !.sentiment = store[r].sentiment,
                                !.urgency = store[r].urgency] = store[r]
         ELSE store'[r] = store[r]

(***************************************************************************)
(* C15: under any interleaving with another analyze-all or an analyze by   *)
(* id, every UPDATE of analyze-all is on a row whose sentiment is NULL at  *)
(* that moment and which its initial SELECT returned (at most the LIMIT    *)
(* of them); it changes no other row and no column besides sentiment and   *)
(* urgency, and no other step of analyze-all changes the table.            *)
(***************************************************************************)
C15_OnlyUnanalysedRows ==
    [][\A q \in Requesters :
         AnalyzeAllStep(q) =>
           /\ Len(requests'[q].feedbackList) <= SelectLimit
           /\ IF UpdateStep(q)
              THEN /\ store[UpdateTarget(q)].sentiment = SqlNull
                   /\ UpdateTarget(q) \in Selected(requests[q])
                   /\ OnlyAnalysisOf(UpdateTarget(q))
              ELSE store' = store]_vars

====
